---------------------------- MODULE Spec2Model ----------------------------
(***************************************************************************)
(* sign-s3-url: a Lambda handler that authorises one upload request        *)
(* against a DynamoDB account record and the account's S3 usage, then      *)
(* presigns a PutObject URL.                                               *)
(*                                                                         *)
(* The repository holds two revisions of the handler, both package main:   *)
(*   src/unnamed/part_000  validateUser calls verifyUserGrants, usage is   *)
(*                         summed over ListObjectsPages                    *)
(*   src/main.go           validateUser only copies the account fields;    *)
(*                         verifyUserGrants is never called                *)
(* The variable rev says which of the two is running.                      *)
(***************************************************************************)
EXTENDS Integers, Sequences, FiniteSets, TLC

(***************************************************************************)
(* int64 arithmetic.  Go's int64 (and int on the 64-bit Lambda runtime) is *)
(* kept at its width: a value is four 16-bit limbs, most significant       *)
(* first, in two's complement.                                             *)
(***************************************************************************)
Limb == 2^16

HalfLimb == 2^15

\* The int64 of a small integer n, -2^31 < n < 2^31.
Nat64(n) == <<0, 0, n \div Limb, n % Limb>>

\* a + b as Go computes it on int64: modulo 2^64, the carry out is dropped.
Add64(a, b) ==
    LET s4 == a[4] + b[4]
        s3 == a[3] + b[3] + (s4 \div Limb)
        s2 == a[2] + b[2] + (s3 \div Limb)
        s1 == a[1] + b[1] + (s2 \div Limb)
    IN  <<s1 % Limb, s2 % Limb, s3 % Limb, s4 % Limb>>

\* -a on int64: the complement plus one.
Neg64(a) ==
    Add64(<<Limb - 1 - a[1], Limb - 1 - a[2], Limb - 1 - a[3], Limb - 1 - a[4]>>,
          Nat64(1))

\* int64(n) for a small integer n of either sign.
I64(n) == IF n >= 0 THEN Nat64(n) ELSE Neg64(Nat64(-n))

\* a * k on int64 for a small factor 0 <= k <= 1000.
Times64(a, k) ==
    LET p4 == a[4] * k
        p3 == a[3] * k + (p4 \div Limb)
        p2 == a[2] * k + (p3 \div Limb)
        p1 == a[1] * k + (p2 \div Limb)
    IN  <<p1 % Limb, p2 % Limb, p3 % Limb, p4 % Limb>>

\* The signed order of int64: the sign bit is flipped, then limbs compare in order.
Key64(a) == <<(a[1] + HalfLimb) % Limb, a[2], a[3], a[4]>>

Less64(a, b) ==
    LET x == Key64(a)
        y == Key64(b)
    IN  \/ x[1] < y[1]
        \/ x[1] = y[1] /\ x[2] < y[2]
        \/ x[1] = y[1] /\ x[2] = y[2] /\ x[3] < y[3]
        \/ x[1] = y[1] /\ x[2] = y[2] /\ x[3] = y[3] /\ x[4] < y[4]

Geq64(a, b) == ~Less64(a, b)

Gt64(a, b) == Less64(b, a)

IsNeg64(a) == a[1] >= HalfLimb

MaxInt64 == <<HalfLimb - 1, Limb - 1, Limb - 1, Limb - 1>>

(***************************************************************************)
(* Data.                                                                   *)
(***************************************************************************)
\* The User struct (part_000:21-30).  Email and UserName are carried by the
\* payload and read by no code path; they are left out.
ZeroUser ==
    [Sub |-> "", CompanyID |-> "", FileRequest |-> "", FileSize |-> I64(0),
     Payed |-> FALSE, ServiceTier |-> 0]

\* An event body json.Unmarshal rejects.
Malformed == [valid |-> FALSE, user |-> ZeroUser]

\* An event body that is the JSON of a User.
Json(u) == [valid |-> TRUE, user |-> u]

Subs == {"sub-1"}

\* company_id values a payload may carry ("" when the field is left out).
PayloadCompanies == {"", "evil"}

\* file_size values a payload may carry (0 when the field is left out).
FileSizes == {I64(-1), I64(0), I64(1), I64(2), I64(5000000), MaxInt64}

\* The Users a payload may describe.
Payloads ==
    [Sub : Subs, CompanyID : PayloadCompanies, FileRequest : {"a.txt"},
     FileSize : FileSizes, Payed : BOOLEAN, ServiceTier : {0, 2}]

\* The event bodies: a malformed one, or the JSON of a User.
Bodies == {Malformed} \cup {Json(u) : u \in Payloads}

\* What GetItem finds under the key sub: nothing, an item whose attributes
\* do not fit the User struct, or a stored account record.
NoItem == [kind |-> "none"]

BadItem == [kind |-> "bad"]

Accounts ==
    [kind : {"account"}, Sub : Subs, CompanyID : {"acme"},
     ServiceTier : {0, 1, 2, 99}, Payed : BOOLEAN]

Items == {NoItem, BadItem} \cup Accounts

\* Object sizes: 1 MB, one byte under the free ceiling, 1 TB.
Tera == Times64(Times64(I64(1000000), 1000), 1000)

PageChoices ==
    {<<>>, <<I64(1000000), I64(1000000), I64(1000000)>>, <<I64(9999999)>>, <<Tera>>}

\* Most pages one listing is split into.
MaxPages == 2

\* A listing is the pages S3 returns for one prefix; the last one is the one
\* delivered with lastPage = true.  An empty namespace is one empty page.
Listings == UNION {[1..n -> PageChoices] : n \in 1..MaxPages}

\* What is stored under every prefix other than the account's.
ForeignListing == << <<I64(1)>> >>

Revisions == {"part_000", "main_go"}

VARIABLES
    rev,      \* the revision of the handler that runs
    item,     \* the DynamoDB table's item for the request's sub
    objects,  \* the S3 listing under the account's prefix
    run,      \* one execution of HandleRequest
    twin      \* the same execution for the same request without company_id

vars == <<rev, item, objects, run, twin>>

NoResponse == [Body |-> "", StatusCode |-> -1, Headers |-> {}]

\* HandleRequest as it is entered with an event.
Fresh(body) ==
    [pc |-> "NewSession", event |-> body, user |-> ZeroUser,
     totalSize |-> I64(0), pageNum |-> 0, listErr |-> FALSE,
     grants |-> "none", calls |-> <<>>, resp |-> NoResponse]

\* The request of the README: the same body "sans CompanyID".
SansCompanyID(body) ==
    [body EXCEPT !.user.CompanyID = ""]

Init ==
    /\ rev \in Revisions
    /\ item \in Items
    /\ objects \in Listings
    /\ \E body \in Bodies :
          /\ run = Fresh(body)
          /\ twin = Fresh(SansCompanyID(body))

Call(op, arg) == [op |-> op, arg |-> arg]

\* return events.APIGatewayProxyResponse{...}, nil
Return(m, body, status, headers) ==
    [m EXCEPT !.pc = "done",
              !.resp = [Body |-> body, StatusCode |-> status, Headers |-> headers]]

(***************************************************************************)
(* HandleRequest, one step per backend call.  fail is the backend's        *)
(* answer to the call the step makes: an error, or not.                    *)
(***************************************************************************)
\* sess, err := session.NewSession(): on an error the response is built
\* without a StatusCode, which Go leaves at 0.
DoNewSession(m, fail) ==
    IF fail
    THEN Return(m, "session error", 0, {})
    ELSE [m EXCEPT !.pc = "Unmarshal"]

\* json.Unmarshal([]byte(event.Body), &user)
DoUnmarshal(m) ==
    IF ~m.event.valid
    THEN Return(m, "unexpected end of JSON input", 400, {})
    ELSE [m EXCEPT !.user = m.event.user, !.pc = "GetItem"]

\* The not-found check left out: every item counts as found.
ItemNeverEmpty(it) == FALSE

\* len(result.Item) == 0
ItemEmpty(it) == it = NoItem

\* dynamodbattribute.UnmarshalMap(result.Item, &dUser): the item's attributes
\* over a zero User; an empty item leaves the zero User.
UnmarshalMap(it) ==
    IF it.kind = "account"
    THEN [ZeroUser EXCEPT !.Sub = it.Sub, !.CompanyID = it.CompanyID,
                          !.ServiceTier = it.ServiceTier, !.Payed = it.Payed]
    ELSE ZeroUser

\* The copy without its first line: the payload's company_id stays.
CopyAccountKeepCompanyID(user, dUser) ==
    [user EXCEPT !.ServiceTier = dUser.ServiceTier,
                 !.Payed = dUser.Payed]

\* user.CompanyID = dUser.CompanyID; user.ServiceTier = ...; user.Payed = ...
CopyAccount(user, dUser) ==
    [user EXCEPT !.CompanyID = dUser.CompanyID,
                 !.ServiceTier = dUser.ServiceTier,
                 !.Payed = dUser.Payed]

\* validateUser up to the point where the account fields are copied.  In
\* part_000 it goes on to verifyUserGrants; in main.go it returns true when
\* the subs match, and HandleRequest goes on to sign.
DoGetItem(m, fail) ==
    LET called == [m EXCEPT !.calls = Append(@, Call("GetItem", m.user.Sub))]
        dUser  == UnmarshalMap(item)
        copied == [called EXCEPT !.user = CopyAccount(@, dUser)]
    IN  IF fail THEN Return(called, "RequestError", 400, {})
        ELSE IF ItemEmpty(item) THEN Return(called, "User not found", 400, {})
        ELSE IF item = BadItem THEN Return(called, "UnmarshalTypeError", 400, {})
        ELSE IF rev = "part_000"
             THEN [copied EXCEPT !.pc = "ListObjectsPages"]
        ELSE IF dUser.Sub = m.user.Sub
             THEN [copied EXCEPT !.pc = "Presign"]
        ELSE Return(called, "User invalid", 400, {})

AccountPrefix == IF item.kind = "account" THEN item.CompanyID \o "/" ELSE "?"

\* The pages the bucket returns for a prefix.
ListingOf(prefix) == IF prefix = AccountPrefix THEN objects ELSE ForeignListing

\* for _, value := range page.Contents { totalSize += *value.Size }
RECURSIVE SumContents(_, _)
SumContents(total, contents) ==
    IF contents = <<>> THEN total
    ELSE SumContents(Add64(total, Head(contents)), Tail(contents))

\* A callback that returns false: the paging stops after the first page.
StopPaging == FALSE

\* The callback's return value: whether to go on to the next page.
ContinuePaging == TRUE

\* calculateObjectSize: one round of ListObjectsPages.  A request that fails
\* ends the paging; the error ListObjectsPages returns is not read.
DoListPage(m, fail) ==
    LET prefix == m.user.CompanyID \o "/"
        pages  == ListingOf(prefix)
        called == [m EXCEPT !.calls = Append(@, Call("ListObjects", prefix))]
        n      == m.pageNum + 1
        summed == [called EXCEPT !.totalSize = SumContents(@, pages[n]),
                                 !.pageNum = n]
    IN  IF fail
        THEN [called EXCEPT !.listErr = TRUE, !.pc = "verifyUserGrants"]
        ELSE IF n = Len(pages) \/ ~ContinuePaging
             THEN [summed EXCEPT !.pc = "verifyUserGrants"]
             ELSE summed

\* The switch on user.ServiceTier that sets maxSize.
MaxSize(tier) ==
    CASE tier = 0 -> I64(10000000)
      [] tier = 1 -> Times64(I64(40000000), 1000)
      [] tier = 2 -> Times64(Times64(I64(1000000), 1000), 1000)
      [] OTHER    -> I64(10000000)

NilError == ""

\* totalSize >= maxSize || totalSize+int64(user.FileSize) > maxSize
Exceeded(totalSize, fileSize, maxSize) ==
    Geq64(totalSize, maxSize) \/ Gt64(Add64(totalSize, fileSize), maxSize)

\* verifyUserGrants after calculateObjectSize returned totalSize: (bool, error).
verifyUserGrants(user, totalSize) ==
    LET maxSize == MaxSize(user.ServiceTier)
        checked ==
            IF Exceeded(totalSize, user.FileSize, maxSize)
            THEN [ok |-> FALSE, err |-> "Maximum amount of stored data exceeded"]
            ELSE [ok |-> TRUE, err |-> NilError]
    IN  IF user.ServiceTier = 0 THEN checked
        ELSE IF user.ServiceTier = 2 THEN checked
        ELSE [ok |-> FALSE, err |-> NilError]

\* grants && user.Payed
Granted(grants, payed) == grants /\ payed

\* The end of validateUser (part_000:111-120) and what HandleRequest makes of
\* its result (part_000:48-55).
DoVerifyGrants(m) ==
    LET r == verifyUserGrants(m.user, m.totalSize)
        decided == [m EXCEPT !.grants = IF r.ok THEN "allow" ELSE "deny"]
    IN  IF r.err # NilError THEN Return(decided, r.err, 400, {})
        ELSE IF Granted(r.ok, m.user.Payed) THEN [decided EXCEPT !.pc = "Presign"]
        ELSE Return(decided, "Invalid User Request", 400, {})

\* What req.Presign returns for an object key.
SignedURL(key) ==
    "https://rsmachiner-user-code.s3.amazonaws.com/" \o key \o "?X-Amz-Signature=s"

\* json.Marshal(&signedURL)
Marshal(url) == "{\"url\":\"" \o url \o "\"}"

\* The headers of a 200: part_000 sets the CORS pair, main.go none.
SuccessHeaders ==
    IF rev = "part_000"
    THEN {<<"Access-Control-Allow-Origin", "*">>, <<"Access-Control-Allow-Methods", "*">>}
    ELSE {}

\* signURLForUser and the rest of HandleRequest.
DoPresign(m, fail) ==
    LET key    == m.user.CompanyID \o "/" \o m.user.FileRequest
        called == [m EXCEPT !.calls = Append(@, Call("Presign", key))]
        url    == IF fail THEN "" ELSE SignedURL(key)
    IN  IF fail THEN Return(called, "presign error", 400, {})
        ELSE IF url = "" THEN Return(called, "Unable to sign URL", 400, {})
        ELSE Return(called, Marshal(url), 200, SuccessHeaders)

\* One step of an execution, by where it stands.
Step(m, fail) ==
    CASE m.pc = "NewSession"       -> DoNewSession(m, fail)
      [] m.pc = "Unmarshal"        -> DoUnmarshal(m)
      [] m.pc = "GetItem"          -> DoGetItem(m, fail)
      [] m.pc = "ListObjectsPages" -> DoListPage(m, fail)
      [] m.pc = "verifyUserGrants" -> DoVerifyGrants(m)
      [] m.pc = "Presign"          -> DoPresign(m, fail)
      [] OTHER                     -> m

\* The execution and its twin take the step against the same backend answer.
Advance(fail) ==
    /\ run' = Step(run, fail)
    /\ twin' = Step(twin, fail)
    /\ UNCHANGED <<rev, item, objects>>

NewSession == run.pc = "NewSession" /\ \E fail \in BOOLEAN : Advance(fail)

Unmarshal == run.pc = "Unmarshal" /\ Advance(FALSE)

GetItem == run.pc = "GetItem" /\ \E fail \in BOOLEAN : Advance(fail)

ListObjectsPages == run.pc = "ListObjectsPages" /\ \E fail \in BOOLEAN : Advance(fail)

VerifyUserGrants == run.pc = "verifyUserGrants" /\ Advance(FALSE)

Presign == run.pc = "Presign" /\ \E fail \in BOOLEAN : Advance(fail)

Next ==
    \/ NewSession
    \/ Unmarshal
    \/ GetItem
    \/ ListObjectsPages
    \/ VerifyUserGrants
    \/ Presign

Spec == Init /\ [][Next]_vars

(***************************************************************************)
(* Properties.                                                             *)
(***************************************************************************)
Done == run.pc = "done"

HasCall(m, op) == \E i \in 1..Len(m.calls) : m.calls[i].op = op

HasAccount == item.kind = "account"

\* a - b on int64.
Sub64(a, b) == Add64(a, Neg64(b))

\* The ceilings of the quota table: 10,000,000, 40,000,000,000 and
\* 1,000,000,000,000 bytes.
Ceiling(tier) ==
    CASE tier = 0 -> I64(10000000)
      [] tier = 1 -> Times64(Times64(I64(40000), 1000), 1000)
      [] tier = 2 -> Times64(Times64(I64(1000000), 1000), 1000)

\* U >= ceiling or U + S > ceiling over the integers, for U, S >= 0: the
\* sum is not formed, S is compared with the room that is left.
RuleDenies(tier, usage, size) ==
    \/ Geq64(usage, Ceiling(tier))
    \/ Gt64(size, Sub64(Ceiling(tier), usage))

\* C1: for every tier in {0, 1, 2}, usage U >= 0 and requested size S >= 0,
\* the decision of verifyUserGrants is Deny exactly when U >= ceiling(T) or
\* U + S > ceiling(T), and Allow otherwise.  (Stated for the U and S whose
\* sum fits an int64.)
C1_UniformQuotaRule ==
    (/\ run.grants # "none"
     /\ run.user.ServiceTier \in {0, 1, 2}
     /\ ~IsNeg64(run.user.FileSize)
     /\ ~IsNeg64(run.totalSize)
     /\ ~IsNeg64(Add64(run.totalSize, run.user.FileSize)))
    => (run.grants = "deny"
          <=> RuleDenies(run.user.ServiceTier, run.totalSize, run.user.FileSize))

\* C2: while the stored account record has payed = false, HandleRequest
\* never returns a 200, whatever the tier, the usage and the requested size.
C2_UnpaidNeverSigned ==
    (HasAccount /\ ~item.Payed) => run.resp.StatusCode # 200

\* C3: when the table holds no record for the request's sub, no listing and
\* no signing call is ever made, no quota decision is taken, the response is
\* never a 200, and the lookup is answered at once with a 400, whatever
\* company_id, service_tier and payed the payload carries.
C3_NoRecordNoAccess ==
    item = NoItem =>
        /\ ~HasCall(run, "ListObjects")
        /\ ~HasCall(run, "Presign")
        /\ run.grants = "none"
        /\ run.pc \notin {"ListObjectsPages", "verifyUserGrants", "Presign"}
        /\ run.resp.StatusCode # 200
        /\ (HasCall(run, "GetItem") => (Done /\ run.resp.StatusCode = 400))

\* A lookup that found nothing, for a payload that claims a company, the
\* top tier and a paid account, answered with "User not found".
C3_Witness ==
    /\ item = NoItem
    /\ HasCall(run, "GetItem")
    /\ run.event.user.CompanyID = "evil"
    /\ run.event.user.Payed
    /\ run.event.user.ServiceTier = 2
    /\ run.resp = [Body |-> "User not found", StatusCode |-> 400, Headers |-> {}]

\* C4: every listing uses the prefix, and every signing the key prefix, of
\* the account record fetched for the sub; the user's CompanyID is the
\* record's before any storage call; and the request with the payload's
\* company_id left out makes the same calls and gets the same response.
C4_AccountNamespaceOnly ==
    /\ \A i \in 1..Len(run.calls) :
          /\ run.calls[i].op = "ListObjects"
                => HasAccount /\ run.calls[i].arg = item.CompanyID \o "/"
          /\ run.calls[i].op = "Presign"
                => /\ HasAccount
                   /\ run.calls[i].arg = item.CompanyID \o "/" \o run.event.user.FileRequest
    /\ run.pc \in {"ListObjectsPages", "verifyUserGrants", "Presign"}
          => HasAccount /\ run.user.CompanyID = item.CompanyID
    /\ twin.pc = run.pc
    /\ twin.calls = run.calls
    /\ twin.resp = run.resp

\* A request that supplied another company's id, listed and signed.
C4_Witness ==
    /\ run.event.user.CompanyID = "evil"
    /\ HasCall(run, "ListObjects")
    /\ HasCall(run, "Presign")
    /\ run.resp.StatusCode = 200

\* C5: every response carries 200 or 400, and 200 exactly when the body is
\* the JSON of a non-empty signed URL.
C5_StatusCodes ==
    Done =>
        /\ run.resp.StatusCode \in {200, 400}
        /\ run.resp.StatusCode = 200
              <=> (HasCall(run, "Presign")
                     /\ run.resp.Body = Marshal(SignedURL(run.calls[Len(run.calls)].arg)))

\* C6: a request whose file_size is negative never gets a signed URL (the
\* claim asks for a 400; that the response is no 200 is the part stated).
C6_NegativeSizeRejected ==
    (/\ rev = "part_000"
     /\ run.event.valid
     /\ IsNeg64(run.event.user.FileSize)
     /\ ~run.listErr)
        => run.resp.StatusCode # 200

\* The body the handler answers an unpaid account with when the quota allows.
UnpaidDenialBody ==
    DoVerifyGrants([Fresh(Malformed) EXCEPT !.pc = "verifyUserGrants"]).resp.Body

\* C7: a 400 whose body is the one an unpaid account is answered with has
\* no other cause: the account is unpaid.
C7_UnpaidMessageOwnCause ==
    (Done /\ ~run.listErr /\ run.resp.StatusCode = 400
          /\ run.resp.Body = UnpaidDenialBody)
        => ~run.user.Payed

\* The calls of an execution are a prefix of: lookup, listings, signing.
InOrder(calls) ==
    \A i, j \in 1..Len(calls) :
        i < j => \/ calls[i].op = "GetItem" /\ calls[j].op # "GetItem"
                 \/ calls[i].op = "ListObjects" /\ calls[j].op \in {"ListObjects", "Presign"}

\* C8: the backend calls come in the order lookup, listing, decision,
\* signing, and signing happens only after the lookup returned a record and
\* the quota decision for it returned Allow.
C8_SignOnlyAfterAllow ==
    /\ InOrder(run.calls)
    /\ HasCall(run, "Presign")
          => /\ HasAccount
             /\ HasCall(run, "GetItem")
             /\ HasCall(run, "ListObjects")
             /\ run.grants = "allow"

\* How often size s occurs among the objects of the pages.
CountOf(s, pages) ==
    Cardinality(UNION {{<<p, i>> : i \in {j \in 1..Len(pages[p]) : pages[p][j] = s}} :
                           p \in 1..Len(pages)})

RECURSIVE SumOver(_, _)
SumOver(sizes, pages) ==
    IF sizes = {} THEN I64(0)
    ELSE LET s == CHOOSE t \in sizes : TRUE
         IN  Add64(Times64(s, CountOf(s, pages)), SumOver(sizes \ {s}, pages))

\* The total of a listing, size by size: each size times its count.
ExactTotal(pages) ==
    SumOver(UNION {{page[i] : i \in 1..Len(page)} : page \in PageChoices}, pages)

\* C9: calculateObjectSize goes through every page up to the one the
\* backend delivers as the last, and returns the sum of the sizes of all
\* objects of all pages; 0 for a namespace without objects.
C9_AllPagesSummed ==
    (rev = "part_000" /\ HasAccount /\ ~run.listErr) =>
        /\ run.pc = "ListObjectsPages"
              => /\ run.pageNum < Len(objects)
                 /\ run.totalSize = ExactTotal(SubSeq(objects, 1, run.pageNum))
        /\ (run.pc \in {"verifyUserGrants", "Presign"} \/ run.grants # "none")
              => /\ run.pageNum = Len(objects)
                 /\ run.totalSize = ExactTotal(objects)
                 /\ (\A p \in 1..Len(objects) : objects[p] = <<>>)
                       => run.totalSize = I64(0)

\* Two pages of three objects of 1,000,000 bytes, summed to 6,000,000.
C9_Witness ==
    /\ objects = << <<I64(1000000), I64(1000000), I64(1000000)>>,
                    <<I64(1000000), I64(1000000), I64(1000000)>> >>
    /\ run.pc = "verifyUserGrants"
    /\ ~run.listErr
    /\ run.pageNum = 2
    /\ run.totalSize = I64(6000000)

\* C10: after a listing request failed with only a part of the usage
\* summed, the execution is aborted: no URL is signed and the response is
\* no 200 (the claim also rules out the quota decision on the partial
\* total, which comes before the signing).
C10_ListFailureAborts ==
    (run.listErr /\ run.totalSize # ExactTotal(objects)) =>
        /\ ~HasCall(run, "Presign")
        /\ run.resp.StatusCode # 200
=============================================================================
